---- MODULE Spec2Model ----
(***************************************************************************)
(* Model of ra.py ("Eye of Ra"): a Tk window that shows the webcam feed,   *)
(* with an always-on-top toggle, a horizontal-flip toggle and a settings   *)
(* file (settings.json) holding the window geometry and the two flags.     *)
(*                                                                         *)
(* Everything runs on the Tk event thread, so every handler is one atomic  *)
(* action.  The module-level script (ra.py:198-200) is modelled as the     *)
(* start-up steps of WebcamApp.__init__ followed by the event loop.        *)
(***************************************************************************)
EXTENDS Integers, Sequences, FiniteSets, TLC

(***************************************************************************)
(* Bounds of the model                                                     *)
(***************************************************************************)
\* on_closing calls followed per run (only a failed save allows a second one)
MaxCloseCalls == 2
\* largest canvas side enumerated by the display-geometry specification
MaxSide == 34

(***************************************************************************)
(* Text conversions: str(int), the f-string handed to window.geometry(),   *)
(* and Tk's reading of it.  Text is a sequence of one-character strings.   *)
(***************************************************************************)
DigitChar == <<"0", "1", "2", "3", "4", "5", "6", "7", "8", "9">>

DigitVal(c) == CHOOSE v \in 0..9 : DigitChar[v + 1] = c

IsDigit(c) == \E v \in 0..9 : DigitChar[v + 1] = c

RECURSIVE NatStr(_)
NatStr(n) == IF n < 10 THEN <<DigitChar[n + 1]>>
             ELSE NatStr(n \div 10) \o <<DigitChar[(n % 10) + 1]>>

\* format(int): a leading "-" for negative numbers
IntStr(n) == IF n < 0 THEN <<"-">> \o NatStr(0 - n) ELSE NatStr(n)

\* f"{width}x{height}+{x}+{y}"
GeometryString(width, height, x, y) ==
    IntStr(width) \o <<"x">> \o IntStr(height) \o <<"+">> \o IntStr(x)
                  \o <<"+">> \o IntStr(y)

\* the longest run of digits of s starting at position i: [val, next]
RECURSIVE ReadNat(_, _, _)
ReadNat(s, i, acc) ==
    IF i <= Len(s) /\ IsDigit(s[i])
    THEN ReadNat(s, i + 1, acc * 10 + DigitVal(s[i]))
    ELSE [val |-> acc, next |-> i]

\* an optionally signed integer of s starting at position i: [ok, val, next]
ReadInt(s, i) ==
    LET neg == i <= Len(s) /\ s[i] = "-"
        j   == IF neg THEN i + 1 ELSE i
        r   == ReadNat(s, j, 0)
    IN [ok   |-> r.next > j,
        val  |-> IF neg THEN 0 - r.val ELSE r.val,
        next |-> r.next]

\* Tk's reading of a geometry specifier WxH+X+Y: W and H unsigned, X and Y
\* signed offsets from the left/top edge.  (The f-string above always writes
\* "+" anchors, so edge-relative "-X" anchors never reach Tk.)
ParseGeometry(s) ==
    LET w  == ReadNat(s, 1, 0)
        hs == w.next + 1
        h  == ReadNat(s, hs, 0)
        xs == h.next + 1
        x  == ReadInt(s, xs)
        ys == x.next + 1
        y  == ReadInt(s, ys)
    IN IF /\ w.next > 1
          /\ w.next <= Len(s) /\ s[w.next] = "x"
          /\ h.next > hs
          /\ h.next <= Len(s) /\ s[h.next] = "+"
          /\ x.ok
          /\ x.next <= Len(s) /\ s[x.next] = "+"
          /\ y.ok
          /\ y.next = Len(s) + 1
       THEN [ok |-> TRUE, w |-> w.val, h |-> h.val, x |-> x.val, y |-> y.val]
       ELSE [ok |-> FALSE, w |-> 0, h |-> 0, x |-> 0, y |-> 0]

(***************************************************************************)
(* JSON: json.dump of the settings dict and json.load of the file.         *)
(* A Python value is tagged with its type; a dict is a sequence of         *)
(* <<key, value>> pairs in insertion order; the JSON text of an object is  *)
(* a sequence of members [k, t, n] with t one of "number", "true",         *)
(* "false".                                                                *)
(***************************************************************************)
PyInt(n) == [ty |-> "int", i |-> n, b |-> FALSE]

PyBool(v) == [ty |-> "bool", i |-> 0, b |-> v]

\* json.dump of one value: True -> true, False -> false, int -> number
DumpValue(v) == IF v.ty = "bool"
                THEN [t |-> IF v.b THEN "true" ELSE "false", n |-> 0]
                ELSE [t |-> "number", n |-> v.i]

\* json.dump(settings, f): one member per dict item, in insertion order
DumpJSON(d) == [j \in 1..Len(d) |->
                   [k |-> d[j][1], t |-> DumpValue(d[j][2]).t,
                    n |-> DumpValue(d[j][2]).n]]

\* json.load of one member's value
LoadValue(m) == IF m.t = "number" THEN PyInt(m.n) ELSE PyBool(m.t = "true")

\* json.load of an object: a dict; of a repeated key the last member wins
LoadJSON(members) ==
    LET keys == {members[j].k : j \in 1..Len(members)}
        last(k) == CHOOSE j \in 1..Len(members) :
                      /\ members[j].k = k
                      /\ \A j2 \in (j + 1)..Len(members) : members[j2].k # k
    IN [k \in keys |-> LoadValue(members[last(k)])]

\* dict.get(key, default)
Get(d, key, default) == IF key \in DOMAIN d THEN d[key] ELSE default

(***************************************************************************)
(* The settings file (SETTINGS_FILE, ra.py:12) as the program can find it. *)
(***************************************************************************)
Absent     == [kind |-> "absent",     members |-> <<>>]
Unreadable == [kind |-> "unreadable", members |-> <<>>]
Garbage    == [kind |-> "garbage",    members |-> <<>>]   \* not JSON
JsonArray  == [kind |-> "array",      members |-> <<>>]   \* JSON, no object
JsonObject(members) == [kind |-> "object", members |-> members]

Num(k, n)  == [k |-> k, t |-> "number", n |-> n]
Bool(k, v) == [k |-> k, t |-> IF v THEN "true" ELSE "false", n |-> 0]

(***************************************************************************)
(* Display geometry of update(): the frame size fitted to the canvas.      *)
(* The aspect ratio is the float fw / fh of the capture's frame size       *)
(* <<fw, fh>>.  int(a / r) and int(a * r) are the floor of the exact       *)
(* quotient and product except where the IEEE-754 double result falls just *)
(* under an exact integer; FloatShort lists those cases for the capture    *)
(* sizes of CaptureModes and sides up to 80 (none for the products).       *)
(***************************************************************************)
FloatShort == {<<352, 288, 33>>, <<352, 288, 55>>, <<352, 288, 66>>,
               <<352, 288, 77>>}

\* int(a / self.aspect_ratio)
IntDiv(a, r) == LET q == (a * r[2]) \div r[1]
                IN IF <<r[1], r[2], a>> \in FloatShort THEN q - 1 ELSE q

\* int(a * self.aspect_ratio)
IntMul(a, r) == (a * r[1]) \div r[2]

Max(a, b) == IF a >= b THEN a ELSE b

\* the fit without the max(1, ...) of ra.py:162-163
VideoSize_NoClamp(w, h, r) ==
    LET vh0 == IntDiv(w, r)
        vw  == IF vh0 > h THEN IntMul(h, r) ELSE w
        vh  == IF vh0 > h THEN h ELSE vh0
    IN <<vw, vh>>

\* ra.py:154-163: <<video_width, video_height>> for a canvas w x h
VideoSize(w, h, r) ==
    LET vh0 == IntDiv(w, r)
        vw  == IF vh0 > h THEN IntMul(h, r) ELSE w
        vh  == IF vh0 > h THEN h ELSE vh0
    IN <<Max(1, vw), Max(1, vh)>>

\* the drawing without the cv2.flip of ra.py:146-147
DrawnImage_NoFlip(w, h, r, flip) ==
    LET v == VideoSize(w, h, r)
    IN [x |-> (w - v[1]) \div 2, y |-> (h - v[2]) \div 2,
        w |-> v[1], h |-> v[2], mirrored |-> FALSE]

\* ra.py:176-180: what the canvas shows after a tick that got a frame
DrawnImage(w, h, r, flip) ==
    LET v == VideoSize(w, h, r)
    IN [x |-> (w - v[1]) \div 2, y |-> (h - v[2]) \div 2,
        w |-> v[1], h |-> v[2], mirrored |-> flip]

Blank == [x |-> 0, y |-> 0, w |-> 0, h |-> 0, mirrored |-> FALSE]

(***************************************************************************)
(* Program constants and the environments enumerated                       *)
(***************************************************************************)
\* ra.py:75-80 and 84-86: the defaults of load_window_settings
DefaultWidth  == 800
DefaultHeight == 600
DefaultX      == 100
DefaultY      == 100

Geom(w, h, x, y) == [w |-> w, h |-> h, x |-> x, y |-> y]

\* a Tk toplevel before any geometry request
UnsetGeometry == Geom(1, 1, 0, 0)

\* frame sizes <<CAP_PROP_FRAME_WIDTH, CAP_PROP_FRAME_HEIGHT>> the capture
\* device can report; <<0, 0>> is what an unopened capture reports
NoCapture    == <<0, 0>>
CaptureModes == {<<640, 480>>}
FitModes     == {<<640, 480>>, <<1280, 720>>, <<352, 288>>, <<480, 640>>}

\* geometries the user can give the window by dragging and resizing
UserGeometries == {Geom(400, 300, 0 - 5, 50)}

\* settings files found at launch
FullRecord(g, aot, flip) ==
    JsonObject(<<Num("width", g.w), Num("height", g.h), Num("x", g.x),
                 Num("y", g.y), Bool("always_on_top", aot),
                 Bool("flip_horizontally", flip)>>)

InitialFiles ==
    {Absent, Unreadable, Garbage, JsonArray,
     JsonObject(<<Num("width", 1024), Bool("flip_horizontally", TRUE)>>),
     JsonObject(<<Num("theme", 7), Num("y", 0 - 20), Num("y", 30),
                  Bool("always_on_top", TRUE)>>),
     FullRecord(Geom(1024, 768, 50, 50), TRUE, TRUE)}

Triggers == {"WM_DELETE_WINDOW", "Escape", "Exit"}

(***************************************************************************)
(* State                                                                   *)
(***************************************************************************)
VARIABLES
    pc,                 \* position of the script: "start", "opened", "loaded",
                        \* "bound", "ticked" (inside __init__), "running"
                        \* (mainloop), "terminated", "crashed"
    file,               \* contents of settings.json
    disk,               \* "sound", or "faulty": open(SETTINGS_FILE, "w") can
                        \* fail
    vidOpen,            \* self.vid.isOpened()
    aspect_ratio,       \* self.aspect_ratio, as the frame size <<fw, fh>>
    always_on_top,      \* self.always_on_top
    flip_horizontally,  \* self.flip_horizontally
    win,                \* geometry of self.window (winfo_width/height/x/y)
    topmost,            \* the window's -topmost attribute
    width, height,      \* self.width, self.height
    canvasSize,         \* <<canvas.winfo_width(), canvas.winfo_height()>>
    canvas,             \* the image item on the canvas, Blank if none
    imgtk,              \* self.canvas.imgtk, Blank if unset
    pending,            \* number of window.after(10, self.update) timers set
    menu,               \* labels of entries 0 and 1 of the context menu
    menuPosted,         \* the context menu is on screen
    err,                \* exception raised by the last step, "none" if none
    last,               \* the step that ran last
    closeLog,           \* what the on_closing calls of this run did, in order
    saved,              \* the six values of the save that wrote the file
    aotHist             \* states before the latest toggle_always_on_top calls

vars == <<pc, file, disk, vidOpen, aspect_ratio, always_on_top,
          flip_horizontally, win, topmost, width, height, canvasSize, canvas,
          imgtk, pending, menu, menuPosted, err, last, closeLog, saved,
          aotHist>>

NoSave == [by |-> "nobody", w |-> 0, h |-> 0, x |-> 0, y |-> 0,
           aot |-> FALSE, flip |-> FALSE]

\* the in-memory state of a process that has just been started (ra.py:199)
Fresh ==
    /\ pc = "start"
    /\ vidOpen = FALSE
    /\ aspect_ratio = NoCapture
    /\ always_on_top = FALSE
    /\ flip_horizontally = FALSE
    /\ win = UnsetGeometry
    /\ topmost = FALSE
    /\ width = 0
    /\ height = 0
    /\ canvasSize = <<0, 0>>
    /\ canvas = Blank
    /\ imgtk = Blank
    /\ pending = 0
    /\ menu = <<"", "">>
    /\ menuPosted = FALSE
    /\ err = "none"
    /\ last = "launch"
    /\ closeLog = <<>>
    /\ aotHist = <<>>

Init ==
    /\ Fresh
    /\ file \in InitialFiles
    /\ disk = "sound"
    /\ saved = NoSave

\* a launch on a file system where writes of the settings file can fail
InitFault ==
    /\ Fresh
    /\ file \in {Absent, FullRecord(Geom(1024, 768, 50, 50), TRUE, TRUE)}
    /\ disk = "faulty"
    /\ saved = NoSave

(***************************************************************************)
(* Settings store                                                          *)
(***************************************************************************)
\* the literal "800x600+100+100" of ra.py:84
DefaultGeometryString ==
    <<"8", "0", "0", "x", "6", "0", "0", "+", "1", "0", "0", "+", "1", "0",
      "0">>

\* load_window_settings (ra.py:70-86) on file contents f: the exception it
\* raises ("none" if none) and the window geometry and flags it leaves
load_window_settings(f) ==
    LET keep(e) == [err |-> e, win |-> win, always_on_top |-> always_on_top,
                    flip_horizontally |-> flip_horizontally]
        settings == LoadJSON(f.members)
        w    == Get(settings, "width", PyInt(DefaultWidth))
        h    == Get(settings, "height", PyInt(DefaultHeight))
        x    == Get(settings, "x", PyInt(DefaultX))
        y    == Get(settings, "y", PyInt(DefaultY))
        aot  == Get(settings, "always_on_top", PyBool(FALSE))
        flip == Get(settings, "flip_horizontally", PyBool(FALSE))
        g    == ParseGeometry(GeometryString(w.i, h.i, x.i, y.i))
        dflt == ParseGeometry(DefaultGeometryString)
    IN CASE f.kind = "absent" ->
              [err |-> "none", win |-> Geom(dflt.w, dflt.h, dflt.x, dflt.y),
               always_on_top |-> FALSE, flip_horizontally |-> FALSE]
         [] f.kind = "unreadable" -> keep("PermissionError")
         [] f.kind = "garbage"    -> keep("JSONDecodeError")
         [] f.kind = "array"      -> keep("AttributeError")
         [] OTHER ->
              [err |-> IF g.ok THEN "none" ELSE "TclError",
               win |-> IF g.ok THEN Geom(g.w, g.h, g.x, g.y) ELSE win,
               always_on_top |-> aot.b, flip_horizontally |-> flip.b]

\* the dict with winfo_y() under "x" and winfo_x() under "y"
SettingsDict_SwapXY(g, aot, flip) ==
    << <<"width", PyInt(g.w)>>, <<"height", PyInt(g.h)>>,
       <<"x", PyInt(g.y)>>, <<"y", PyInt(g.x)>>,
       <<"always_on_top", PyBool(aot)>>,
       <<"flip_horizontally", PyBool(flip)>> >>

\* the dict built by save_window_settings (ra.py:90-97)
SettingsDict(g, aot, flip) ==
    << <<"width", PyInt(g.w)>>, <<"height", PyInt(g.h)>>,
       <<"x", PyInt(g.x)>>, <<"y", PyInt(g.y)>>,
       <<"always_on_top", PyBool(aot)>>,
       <<"flip_horizontally", PyBool(flip)>> >>

\* a save of the four geometry keys only
save_window_settings_GeometryOnly(g, aot, flip) ==
    JsonObject(SubSeq(DumpJSON(SettingsDict(g, aot, flip)), 1, 4))

\* a save that adds the six members to those the file already holds
save_window_settings_Merge(g, aot, flip) ==
    JsonObject((IF file.kind = "object" THEN file.members ELSE <<>>)
               \o DumpJSON(SettingsDict(g, aot, flip)))

\* save_window_settings (ra.py:88-99): the file it writes
save_window_settings(g, aot, flip) ==
    JsonObject(DumpJSON(SettingsDict(g, aot, flip)))

\* the possible outcomes of open(SETTINGS_FILE, "w"): TRUE if it succeeds
WriteResults == IF disk = "faulty" THEN BOOLEAN ELSE {TRUE}

\* a save that catches the exception of a failed open and goes on
Save_Swallow(g, aot, flip, ok) ==
    IF ok
    THEN /\ file' = save_window_settings(g, aot, flip)
         /\ saved' = [by |-> "save", w |-> g.w, h |-> g.h, x |-> g.x,
                      y |-> g.y, aot |-> aot, flip |-> flip]
         /\ err' = "none"
    ELSE /\ UNCHANGED <<file, saved>>
         /\ err' = "none"

\* a call of save_window_settings with window geometry g and flags aot, flip:
\* the file is replaced (ok), or the open fails and the exception is raised
Save(g, aot, flip, ok) ==
    IF ok
    THEN /\ file' = save_window_settings(g, aot, flip)
         /\ saved' = [by |-> "save", w |-> g.w, h |-> g.h, x |-> g.x,
                      y |-> g.y, aot |-> aot, flip |-> flip]
         /\ err' = "none"
    ELSE /\ UNCHANGED <<file, saved>>
         /\ err' = "PermissionError"

\* the always_on_top value a load of file contents f yields
PersistedAOT(f) ==
    IF f.kind = "object"
    THEN Get(LoadJSON(f.members), "always_on_top", PyBool(FALSE)).b
    ELSE FALSE

(***************************************************************************)
(* Labels of the context menu                                              *)
(***************************************************************************)
\* ra.py:132-135
get_always_on_top_label(aot) ==
    IF aot THEN "Always on Top (Enabled)" ELSE "Always on Top (Disabled)"

\* ra.py:137-140
get_flip_label(flip) ==
    IF flip THEN "Flip Horizontally (Enabled)"
    ELSE "Flip Horizontally (Disabled)"

(***************************************************************************)
(* Start-up: WebcamApp.__init__ (ra.py:16-68), in the order of the code    *)
(***************************************************************************)
\* the same with the aspect ratio of ra.py:24 left for later
OpenCapture_NoRatio ==
    /\ pc = "start"
    /\ \E m \in CaptureModes \cup {NoCapture} :
          /\ vidOpen' = (m # NoCapture)
          /\ aspect_ratio' = aspect_ratio
          /\ pc' = IF m = NoCapture THEN "crashed" ELSE "opened"
          /\ err' = IF m = NoCapture THEN "ZeroDivisionError" ELSE "none"
    /\ last' = "OpenCapture"
    /\ UNCHANGED <<file, disk, always_on_top, flip_horizontally, win, topmost,
                   width, height, canvasSize, canvas, imgtk, pending, menu,
                   menuPosted, closeLog, saved, aotHist>>

\* ra.py:17-24: open the capture device and compute the aspect ratio; an
\* unopened capture reports 0.0 x 0.0 and the division raises
OpenCapture ==
    /\ pc = "start"
    /\ \E m \in CaptureModes \cup {NoCapture} :
          /\ vidOpen' = (m # NoCapture)
          /\ aspect_ratio' = m
          /\ pc' = IF m = NoCapture THEN "crashed" ELSE "opened"
          /\ err' = IF m = NoCapture THEN "ZeroDivisionError" ELSE "none"
    /\ last' = "OpenCapture"
    /\ UNCHANGED <<file, disk, always_on_top, flip_horizontally, win, topmost,
                   width, height, canvasSize, canvas, imgtk, pending, menu,
                   menuPosted, closeLog, saved, aotHist>>

\* ra.py:26-31: reset the flags and load the settings; an exception of the
\* load leaves __init__ and ends the script
LoadSettings ==
    /\ pc = "opened"
    /\ LET r == load_window_settings(file)
       IN /\ win' = r.win
          /\ always_on_top' = r.always_on_top
          /\ flip_horizontally' = r.flip_horizontally
          /\ err' = r.err
          /\ pc' = IF r.err = "none" THEN "loaded" ELSE "crashed"
    /\ last' = "load_window_settings"
    /\ UNCHANGED <<file, disk, vidOpen, aspect_ratio, topmost, width, height,
                   canvasSize, canvas, imgtk, pending, menu, menuPosted,
                   closeLog, saved, aotHist>>

\* the same without window.attributes("-topmost", ...) of ra.py:39
InitWindow_NoTopmost ==
    /\ pc = "loaded"
    /\ width' = win.w
    /\ height' = win.h
    /\ topmost' = topmost
    /\ canvasSize' = <<1, 1>>
    /\ pc' = "bound"
    /\ last' = "InitWindow"
    /\ UNCHANGED <<file, disk, vidOpen, aspect_ratio, always_on_top,
                   flip_horizontally, win, canvas, imgtk, pending, menu,
                   menuPosted, err, closeLog, saved, aotHist>>

\* ra.py:33-55: cache the window size, apply -topmost, create the canvas
\* (1 x 1 until it is laid out) and bind the handlers
InitWindow ==
    /\ pc = "loaded"
    /\ width' = win.w
    /\ height' = win.h
    /\ topmost' = always_on_top
    /\ canvasSize' = <<1, 1>>
    /\ pc' = "bound"
    /\ last' = "InitWindow"
    /\ UNCHANGED <<file, disk, vidOpen, aspect_ratio, always_on_top,
                   flip_horizontally, win, canvas, imgtk, pending, menu,
                   menuPosted, err, closeLog, saved, aotHist>>

\* ra.py:60-68: create the context menu, register WM_DELETE_WINDOW and enter
\* the main loop
CreateMenu ==
    /\ pc = "ticked"
    /\ menu' = <<get_always_on_top_label(always_on_top),
                 get_flip_label(flip_horizontally)>>
    /\ pc' = "running"
    /\ last' = "CreateMenu"
    /\ UNCHANGED <<file, disk, vidOpen, aspect_ratio, always_on_top,
                   flip_horizontally, win, topmost, width, height, canvasSize,
                   canvas, imgtk, pending, menuPosted, err, closeLog, saved,
                   aotHist>>

(***************************************************************************)
(* The event loop: one action per handler.  Handlers run only inside       *)
(* window.mainloop(), that is, while pc = "running"; an exception raised   *)
(* by a handler is reported by Tk and the loop goes on.                    *)
(***************************************************************************)
\* the on_closing calls made in this run
CloseCalls == Cardinality({j \in 1..Len(closeLog) : closeLog[j] = "call"})

\* the latest two snapshots
KeepTwo(h) == IF Len(h) > 2 THEN SubSeq(h, Len(h) - 1, Len(h)) ELSE h

\* canvas.delete("all") done before the test of ret
Shown_ClearFirst(ret, old) ==
    IF ret
    THEN DrawnImage(canvasSize[1], canvasSize[2], aspect_ratio,
                    flip_horizontally)
    ELSE Blank

\* ra.py:144-180: what the canvas shows (and canvas.imgtk holds) after a
\* tick whose read returned a frame (ret) or none; old is what it held before
Shown(ret, old) ==
    IF ret
    THEN DrawnImage(canvasSize[1], canvasSize[2], aspect_ratio,
                    flip_horizontally)
    ELSE old

\* a timer set as long as the window is there, whatever the capture says
ScheduledNext_WhileWindow == IF pc \in {"bound", "running"} THEN 1 ELSE 0

\* two timers set by each tick
ScheduledNext_Twice == IF vidOpen THEN 2 ELSE 0

\* ra.py:183-184: the timers set at the end of a tick
ScheduledNext == IF vidOpen THEN 1 ELSE 0

\* update (ra.py:142-184): the first call is made by __init__ (ra.py:58),
\* the later ones by the timer.  ret is the result of self.vid.read(); a
\* released capture yields no frame.
update ==
    /\ \/ pc = "bound"
       \/ pc = "running" /\ pending > 0
    /\ \E ret \in (IF vidOpen THEN BOOLEAN ELSE {FALSE}) :
          /\ canvas' = Shown(ret, canvas)
          /\ imgtk' = Shown(ret, imgtk)
          /\ last' = IF ret THEN "update" ELSE "update_noframe"
    /\ pending' = (IF pc = "running" THEN pending - 1 ELSE pending)
                  + ScheduledNext
    /\ pc' = IF pc = "bound" THEN "ticked" ELSE pc
    /\ err' = "none"
    /\ UNCHANGED <<file, disk, vidOpen, aspect_ratio, always_on_top,
                   flip_horizontally, win, topmost, width, height, canvasSize,
                   menu, menuPosted, closeLog, saved, aotHist>>

\* resize_event (ra.py:101-107), bound to <Configure> of the window
\* (ra.py:46).  Tk runs it when the window has been moved or resized to g
\* (canvasEvent = FALSE) and, the canvas carrying the window's binding tag,
\* when the packer has given the canvas the size of the window
\* (canvasEvent = TRUE).
resize_event(g, canvasEvent) ==
    /\ pc = "running"
    /\ IF canvasEvent
       THEN /\ g = win
            /\ canvasSize # <<win.w, win.h>>
            /\ canvasSize' = <<win.w, win.h>>
       ELSE canvasSize' = canvasSize
    /\ win' = g
    /\ width' = g.w
    /\ height' = g.h
    /\ \E ok \in WriteResults : Save(g, always_on_top, flip_horizontally, ok)
    /\ last' = "resize_event"
    /\ aotHist' = <<>>
    /\ UNCHANGED <<pc, disk, vidOpen, aspect_ratio, always_on_top,
                   flip_horizontally, topmost, canvas, imgtk, pending, menu,
                   menuPosted, closeLog>>

\* the same without the entryconfig calls of ra.py:111-112
show_context_menu_NoRefresh ==
    /\ pc = "running"
    /\ menu' = menu
    /\ menuPosted' = TRUE
    /\ err' = "none"
    /\ last' = "show_context_menu"
    /\ UNCHANGED <<pc, file, disk, vidOpen, aspect_ratio, always_on_top,
                   flip_horizontally, win, topmost, width, height, canvasSize,
                   canvas, imgtk, pending, closeLog, saved, aotHist>>

\* show_context_menu (ra.py:109-115), bound to <Button-3> of the canvas
show_context_menu ==
    /\ pc = "running"
    /\ menu' = <<get_always_on_top_label(always_on_top),
                 get_flip_label(flip_horizontally)>>
    /\ menuPosted' = TRUE
    /\ err' = "none"
    /\ last' = "show_context_menu"
    /\ UNCHANGED <<pc, file, disk, vidOpen, aspect_ratio, always_on_top,
                   flip_horizontally, win, topmost, width, height, canvasSize,
                   canvas, imgtk, pending, closeLog, saved, aotHist>>

\* the user dismisses the posted menu without choosing an entry
MenuDismiss ==
    /\ pc = "running"
    /\ menuPosted
    /\ menuPosted' = FALSE
    /\ UNCHANGED <<pc, file, disk, vidOpen, aspect_ratio, always_on_top,
                   flip_horizontally, win, topmost, width, height, canvasSize,
                   canvas, imgtk, pending, menu, err, last, closeLog, saved,
                   aotHist>>

\* the toggle without window.attributes("-topmost", ...) of ra.py:120
toggle_always_on_top_NoAttr ==
    /\ pc = "running"
    /\ menuPosted
    /\ always_on_top' = ~always_on_top
    /\ topmost' = topmost
    /\ \E ok \in WriteResults :
          Save(win, ~always_on_top, flip_horizontally, ok)
    /\ menuPosted' = FALSE
    /\ last' = "toggle_always_on_top"
    /\ aotHist' = KeepTwo(Append(aotHist,
                     [flag |-> always_on_top, attr |-> topmost,
                      persisted |-> PersistedAOT(file)]))
    /\ UNCHANGED <<pc, disk, vidOpen, aspect_ratio, flip_horizontally, win,
                   width, height, canvasSize, canvas, imgtk, pending, menu,
                   closeLog>>

\* toggle_always_on_top (ra.py:117-123), entry 0 of the posted menu
toggle_always_on_top ==
    /\ pc = "running"
    /\ menuPosted
    /\ always_on_top' = ~always_on_top
    /\ topmost' = ~always_on_top
    /\ \E ok \in WriteResults :
          Save(win, ~always_on_top, flip_horizontally, ok)
    /\ menuPosted' = FALSE
    /\ last' = "toggle_always_on_top"
    /\ aotHist' = KeepTwo(Append(aotHist,
                     [flag |-> always_on_top, attr |-> topmost,
                      persisted |-> PersistedAOT(file)]))
    /\ UNCHANGED <<pc, disk, vidOpen, aspect_ratio, flip_horizontally, win,
                   width, height, canvasSize, canvas, imgtk, pending, menu,
                   closeLog>>

\* a toggle_flip that inverts always_on_top as well
toggle_flip_Both ==
    /\ pc = "running"
    /\ menuPosted
    /\ flip_horizontally' = ~flip_horizontally
    /\ always_on_top' = ~always_on_top
    /\ \E ok \in WriteResults :
          Save(win, ~always_on_top, ~flip_horizontally, ok)
    /\ menuPosted' = FALSE
    /\ last' = "toggle_flip"
    /\ aotHist' = <<>>
    /\ UNCHANGED <<pc, disk, vidOpen, aspect_ratio, win,
                   topmost, width, height, canvasSize, canvas, imgtk, pending,
                   menu, closeLog>>

\* toggle_flip (ra.py:125-130), entry 1 of the posted menu
toggle_flip ==
    /\ pc = "running"
    /\ menuPosted
    /\ flip_horizontally' = ~flip_horizontally
    /\ \E ok \in WriteResults :
          Save(win, always_on_top, ~flip_horizontally, ok)
    /\ menuPosted' = FALSE
    /\ last' = "toggle_flip"
    /\ aotHist' = <<>>
    /\ UNCHANGED <<pc, disk, vidOpen, aspect_ratio, always_on_top, win,
                   topmost, width, height, canvasSize, canvas, imgtk, pending,
                   menu, closeLog>>

\* on_closing (ra.py:186-195), run by WM_DELETE_WINDOW (ra.py:67), by the
\* Escape key (ra.py:52) and by the Exit entry of the posted menu (ra.py:65).
\* If the save raises, destroy is not reached.  window.destroy() ends the
\* main loop and deletes the pending timers with the interpreter.
on_closing(trigger) ==
    /\ pc = "running"
    /\ trigger = "Exit" => menuPosted
    /\ CloseCalls < MaxCloseCalls
    /\ vidOpen' = FALSE
    /\ \E ok \in WriteResults :
          /\ Save(win, always_on_top, flip_horizontally, ok)
          /\ closeLog' = closeLog \o <<"call">>
                           \o (IF vidOpen THEN <<"release">> ELSE <<>>)
                           \o (IF ok THEN <<"save", "destroy">>
                               ELSE <<"save_failed">>)
          /\ pc' = IF ok THEN "terminated" ELSE pc
          /\ pending' = IF ok THEN 0 ELSE pending
          /\ menuPosted' = IF ok \/ trigger = "Exit" THEN FALSE
                           ELSE menuPosted
    /\ last' = trigger
    /\ aotHist' = <<>>
    /\ UNCHANGED <<disk, aspect_ratio, always_on_top, flip_horizontally, win,
                   topmost, width, height, canvasSize, canvas, imgtk, menu>>

\* the script is started again (ra.py:198-200); only the file system remains
Relaunch ==
    /\ pc \in {"terminated", "crashed"}
    /\ pc' = "start"
    /\ vidOpen' = FALSE
    /\ aspect_ratio' = NoCapture
    /\ always_on_top' = FALSE
    /\ flip_horizontally' = FALSE
    /\ win' = UnsetGeometry
    /\ topmost' = FALSE
    /\ width' = 0
    /\ height' = 0
    /\ canvasSize' = <<0, 0>>
    /\ canvas' = Blank
    /\ imgtk' = Blank
    /\ pending' = 0
    /\ menu' = <<"", "">>
    /\ menuPosted' = FALSE
    /\ err' = "none"
    /\ last' = "launch"
    /\ closeLog' = <<>>
    /\ aotHist' = <<>>
    /\ UNCHANGED <<file, disk, saved>>

(***************************************************************************)
(* Specifications                                                          *)
(***************************************************************************)
Run ==
    \/ OpenCapture
    \/ LoadSettings
    \/ InitWindow
    \/ update
    \/ CreateMenu
    \/ \E g \in UserGeometries \cup {win} : resize_event(g, FALSE)
    \/ resize_event(win, TRUE)
    \/ show_context_menu
    \/ MenuDismiss
    \/ toggle_always_on_top
    \/ toggle_flip
    \/ \E t \in Triggers : on_closing(t)

Next == Run \/ Relaunch

\* the program in an environment where the settings file can be written
Spec == Init /\ [][Next]_vars

\* the program in an environment where writes of the settings file can fail
SpecFault == InitFault /\ [][Next]_vars

\* the same, with the timer of window.after firing while the main loop runs
FairSpecFault == SpecFault /\ WF_vars(update)

\* the display loop alone, for every canvas size up to MaxSide x MaxSide and
\* every capture mode: the running program as it is after a launch from a
\* settings file holding the window size and the lay-out of the canvas
InitFit ==
    /\ pc = "running"
    /\ \E w \in 1..MaxSide, h \in 1..MaxSide :
          /\ win = Geom(w, h, DefaultX, DefaultY)
          /\ width = w
          /\ height = h
          /\ canvasSize = <<w, h>>
          /\ file = save_window_settings(win, FALSE, FALSE)
          /\ saved = [by |-> "save", w |-> w, h |-> h, x |-> DefaultX,
                      y |-> DefaultY, aot |-> FALSE, flip |-> FALSE]
    /\ disk = "sound"
    /\ vidOpen = TRUE
    /\ aspect_ratio \in FitModes
    /\ always_on_top = FALSE
    /\ flip_horizontally = FALSE
    /\ topmost = FALSE
    /\ canvas = Blank
    /\ imgtk = Blank
    /\ pending = 1
    /\ menu = <<get_always_on_top_label(FALSE), get_flip_label(FALSE)>>
    /\ menuPosted = FALSE
    /\ err = "none"
    /\ last = "resize_event"
    /\ closeLog = <<>>
    /\ aotHist = <<>>

NextFit == update

SpecFit == InitFit /\ [][NextFit]_vars

(***************************************************************************)
(* Properties                                                              *)
(***************************************************************************)
Abs(a) == IF a < 0 THEN 0 - a ELSE a

Count(log, e) == Cardinality({j \in 1..Len(log) : log[j] = e})

DefaultGeometry == Geom(DefaultWidth, DefaultHeight, DefaultX, DefaultY)

\* C1: load_window_settings raises nothing and leaves the window at
\* 800x600+100+100 with both flags false whenever the settings file is
\* missing, unreadable or malformed (not JSON, or JSON that is no object).
C1_LoadFailsSoft ==
    (last = "load_window_settings"
       /\ file.kind \in {"absent", "unreadable", "garbage", "array"})
    => /\ err = "none"
       /\ win = DefaultGeometry
       /\ always_on_top = FALSE
       /\ flip_horizontally = FALSE

\* C2: round trip.  When load_window_settings has read a file written by
\* save_window_settings from a window of positive width and height, the
\* window geometry and both flags equal the six values that were saved.
C2_RoundTrip ==
    (last = "load_window_settings" /\ saved.by = "save"
       /\ saved.w > 0 /\ saved.h > 0)
    => /\ err = "none"
       /\ win = Geom(saved.w, saved.h, saved.x, saved.y)
       /\ always_on_top = saved.aot
       /\ flip_horizontally = saved.flip

\* a load of a record saved with a negative x and both flags set
C2_Witness ==
    /\ last = "load_window_settings"
    /\ saved.by = "save"
    /\ saved.x < 0
    /\ saved.aot
    /\ saved.flip
    /\ win.x = saved.x

\* C3: a shutdown request that arrives after on_closing has begun or
\* completed is a no-op: it raises nothing, releases, saves and destroys
\* nothing a second time and leaves the application as it was.
C3_RepeatedCloseIsNoOp ==
    /\ Count(closeLog, "release") <= 1
    /\ Count(closeLog, "save") + Count(closeLog, "save_failed") <= 1
    /\ Count(closeLog, "destroy") <= 1
    /\ (CloseCalls >= 2 /\ last \in Triggers)
          => (err = "none" /\ pc = "running")

\* C4: every shutdown trigger runs on_closing to the end: the capture is
\* released if it was open, then the settings are saved, then the window is
\* destroyed, and the application is terminated.
C4_ShutdownCompletes ==
    last \in Triggers
    => /\ pc = "terminated"
       /\ ~vidOpen
       /\ Len(closeLog) >= 2
       /\ SubSeq(closeLog, Len(closeLog) - 1, Len(closeLog))
             = <<"save", "destroy">>
       /\ pending = 0

\* C5: the image a tick draws on a canvas of w x h pixels (w, h >= 1) is at
\* least 1 x 1, at most w x h, and placed at non-negative offsets
\* ((w - vw) \div 2, (h - vh) \div 2), so that it lies inside the canvas.
C5_InsideCanvas ==
    canvas # Blank
    => /\ 1 <= canvas.w /\ canvas.w <= canvasSize[1]
       /\ 1 <= canvas.h /\ canvas.h <= canvasSize[2]
       /\ canvas.x = (canvasSize[1] - canvas.w) \div 2
       /\ canvas.y = (canvasSize[2] - canvas.h) \div 2
       /\ canvas.x >= 0 /\ canvas.x + canvas.w <= canvasSize[1]
       /\ canvas.y >= 0 /\ canvas.y + canvas.h <= canvasSize[2]

\* a frame drawn on a 1 x 1 canvas, where only the clamp keeps the height
\* at one pixel
C5_Witness ==
    /\ last = "update"
    /\ canvasSize = <<1, 1>>
    /\ aspect_ratio = <<1280, 720>>
    /\ canvas.w = 1
    /\ canvas.h = 1

\* C6: the image a tick draws keeps the aspect ratio r = fw / fh within one
\* pixel and is the largest such rectangle: its width is the canvas width
\* and its height is less than one pixel from w / r, or its height is the
\* canvas height and its width is less than one pixel from h * r.
C6_LargestFit ==
    canvas # Blank
    => \/ /\ canvas.w = canvasSize[1]
          /\ Abs(canvas.h * aspect_ratio[1] - canvasSize[1] * aspect_ratio[2])
                < aspect_ratio[1]
       \/ /\ canvas.h = canvasSize[2]
          /\ Abs(canvas.w * aspect_ratio[2] - canvasSize[2] * aspect_ratio[1])
                < aspect_ratio[2]

\* C7: after a call of toggle_always_on_top the flag, the window's -topmost
\* attribute and the persisted always_on_top all hold the negation of the
\* flag before the call; after two calls with no resize, flip or shutdown
\* in between all three are what they were before the first call.
C7_DoubleToggle ==
    LET now == [flag |-> always_on_top, attr |-> topmost,
                persisted |-> PersistedAOT(file)]
        n   == Len(aotHist)
    IN /\ n >= 1 => now = [flag |-> ~aotHist[n].flag,
                           attr |-> ~aotHist[n].flag,
                           persisted |-> ~aotHist[n].flag]
       /\ n = 2 => now = aotHist[1]

\* two toggles in a row that started from a window pinned on top
C7_Witness ==
    /\ last = "toggle_always_on_top"
    /\ Len(aotHist) = 2
    /\ aotHist[1].flag
    /\ ~aotHist[2].flag
    /\ always_on_top
    /\ topmost

\* C8: a tick whose read returns no frame raises nothing and leaves the
\* canvas, the retained image, both flags and the settings file unchanged,
\* and sets the next timer if the capture is open.
C8_NoFrameTick ==
    [][(update /\ last' = "update_noframe")
       => /\ err' = "none"
          /\ UNCHANGED <<canvas, imgtk, always_on_top, flip_horizontally,
                         file>>
          /\ vidOpen => pending' = 1]_vars

\* a tick without a frame, after a frame was drawn, in the running loop
C8_Witness ==
    /\ last = "update_noframe"
    /\ pc = "running"
    /\ canvas # Blank
    /\ imgtk = canvas
    /\ vidOpen
    /\ pending = 1

C10_ResizeSaves ==
    last = "resize_event"
    => /\ err = "none"
       /\ width = win.w
       /\ height = win.h
       /\ file.kind = "object"
       /\ LoadJSON(file.members)
             = [k \in {"width", "height", "x", "y", "always_on_top",
                       "flip_horizontally"} |->
                  CASE k = "width"  -> PyInt(win.w)
                    [] k = "height" -> PyInt(win.h)
                    [] k = "x"      -> PyInt(win.x)
                    [] k = "y"      -> PyInt(win.y)
                    [] k = "always_on_top" -> PyBool(always_on_top)
                    [] OTHER -> PyBool(flip_horizontally)]

\* the window resized to 400x300 at -5,50 while the flip flag is set
C10_Witness ==
    /\ last = "resize_event"
    /\ win = Geom(400, 300, 0 - 5, 50)
    /\ width = 400
    /\ height = 300
    /\ flip_horizontally
    /\ saved.w = 400

\* the value the file holds for key k (the last member of that name), or
\* dflt if no member has that name
FileNumber(k, dflt) ==
    IF \E j \in 1..Len(file.members) : file.members[j].k = k
    THEN LET j == CHOOSE j \in 1..Len(file.members) :
                    /\ file.members[j].k = k
                    /\ \A j2 \in 1..Len(file.members) :
                          file.members[j2].k = k => j2 <= j
         IN file.members[j].n
    ELSE dflt

FileFlag(k) ==
    /\ \E j \in 1..Len(file.members) : file.members[j].k = k
    /\ LET j == CHOOSE j \in 1..Len(file.members) :
                    /\ file.members[j].k = k
                    /\ \A j2 \in 1..Len(file.members) :
                          file.members[j2].k = k => j2 <= j
       IN file.members[j].t = "true"

SixKeys == {"width", "height", "x", "y", "always_on_top", "flip_horizontally"}

FileKeys == {file.members[j].k : j \in 1..Len(file.members)}

\* C11: on a launch with a settings file holding all six values the window
\* geometry and both flags are those of the file, with no file they are
\* 800x600+100+100, false, false; and when the first tick is about to run
\* nothing has been drawn and the -topmost attribute is the loaded flag.
C11_LaunchAppliesSettings ==
    /\ (pc \in {"loaded", "bound"} /\ file.kind = "object"
          /\ SixKeys \subseteq FileKeys)
       => /\ win = Geom(FileNumber("width", 0), FileNumber("height", 0),
                        FileNumber("x", 0), FileNumber("y", 0))
          /\ always_on_top = FileFlag("always_on_top")
          /\ flip_horizontally = FileFlag("flip_horizontally")
    /\ (pc \in {"loaded", "bound"} /\ file.kind = "absent")
       => /\ win = Geom(800, 600, 100, 100)
          /\ ~always_on_top
          /\ ~flip_horizontally
    /\ pc \in {"start", "opened", "loaded", "bound"} => canvas = Blank
    /\ pc = "bound" => topmost = always_on_top

\* the launch from width=1024, height=768, x=50, y=50, both flags true, at
\* the point where the first tick is about to run
C11_Witness ==
    /\ pc = "bound"
    /\ file = FullRecord(Geom(1024, 768, 50, 50), TRUE, TRUE)
    /\ win = Geom(1024, 768, 50, 50)
    /\ always_on_top
    /\ flip_horizontally
    /\ topmost
    /\ canvas = Blank

\* C12: toggle_flip inverts flip_horizontally and saves it in the same
\* handler run without touching the canvas; a tick that gets a frame draws it
\* mirrored if and only if flip_horizontally is true at that tick.
C12_FlipNextTick ==
    /\ [][toggle_flip
          => /\ flip_horizontally' = ~flip_horizontally
             /\ file'.kind = "object"
             /\ FileFlag("flip_horizontally")' = flip_horizontally'
             /\ UNCHANGED <<canvas, imgtk>>]_vars
    /\ [][(update /\ last' = "update")
          => canvas'.mirrored = flip_horizontally]_vars

\* right after a toggle_flip the canvas still shows the frame as it was
\* drawn before
C12_Witness ==
    /\ last = "toggle_flip"
    /\ canvas # Blank
    /\ flip_horizontally
    /\ ~canvas.mirrored
    /\ FileFlag("flip_horizontally")

\* C13: when the write of the settings file fails in a handler that saves
\* (resize_event, toggle_always_on_top, toggle_flip, on_closing) the
\* exception leaves the handler: it is not swallowed, the file is not
\* written by a second attempt, and on_closing does not go on to destroy.
C13_WriteFailurePropagates ==
    [][((\E g \in UserGeometries \cup {win}, c \in BOOLEAN : resize_event(g, c))
          \/ toggle_always_on_top \/ toggle_flip
          \/ (\E t \in Triggers : on_closing(t)))
       => \/ /\ err' = "none"
             /\ file' = FullRecord(win', always_on_top', flip_horizontally')
          \/ /\ err' = "PermissionError"
             /\ file' = file
             /\ pc' = pc
             /\ Count(closeLog', "save") = Count(closeLog, "save")
             /\ Count(closeLog', "destroy") = Count(closeLog, "destroy")
             /\ Count(closeLog', "save_failed")
                   <= Count(closeLog, "save_failed") + 1]_vars

\* a toggle whose save failed: the flag is flipped in memory, the file
\* still holds the old value and the exception is out
C13_Witness ==
    /\ last = "toggle_always_on_top"
    /\ err = "PermissionError"
    /\ always_on_top
    /\ file.kind = "object"
    /\ ~FileFlag("always_on_top")

\* C14: a load of a JSON object uses each of the six keys that is present
\* and the key's own default (800, 600, 100, 100, false, false) where it is
\* absent, and ignores every other key; a file written by a save holds
\* exactly the six keys, with the values of the state that was saved.
C14_DefaultsAndOverwrite ==
    /\ (last = "load_window_settings" /\ file.kind = "object")
       => /\ err = "none"
          /\ win = Geom(FileNumber("width", 800), FileNumber("height", 600),
                        FileNumber("x", 100), FileNumber("y", 100))
          /\ always_on_top = FileFlag("always_on_top")
          /\ flip_horizontally = FileFlag("flip_horizontally")
    /\ saved.by = "save"
       => /\ file.kind = "object"
          /\ Len(file.members) = 6
          /\ FileKeys = SixKeys
          /\ FileNumber("width", 0) = saved.w
          /\ FileNumber("height", 0) = saved.h
          /\ FileNumber("x", 0) = saved.x
          /\ FileNumber("y", 0) = saved.y
          /\ FileFlag("always_on_top") = saved.aot
          /\ FileFlag("flip_horizontally") = saved.flip

\* a load of a file with an unknown key and without width, height, x and
\* flip_horizontally
C14_Witness ==
    /\ last = "load_window_settings"
    /\ file.kind = "object"
    /\ "theme" \in FileKeys
    /\ "width" \notin FileKeys
    /\ win = Geom(800, 600, 100, 30)
    /\ always_on_top
    /\ ~flip_horizontally

\* C15: while the context menu is posted its first entry reads
\* "Always on Top (Enabled)" or "Always on Top (Disabled)" and its second
\* "Flip Horizontally (Enabled)" or "Flip Horizontally (Disabled)",
\* according to the flags at that time.
C15_MenuLabels ==
    menuPosted
    => /\ menu[1] = IF always_on_top THEN "Always on Top (Enabled)"
                    ELSE "Always on Top (Disabled)"
       /\ menu[2] = IF flip_horizontally THEN "Flip Horizontally (Enabled)"
                    ELSE "Flip Horizontally (Disabled)"

\* the menu posted after toggles that left the window on top and not
\* flipped, in a run that started with neither flag set
C15_Witness ==
    /\ menuPosted
    /\ last = "show_context_menu"
    /\ Len(aotHist) = 1
    /\ ~aotHist[1].flag
    /\ always_on_top
    /\ menu = <<"Always on Top (Enabled)", "Flip Horizontally (Disabled)">>

\* C16: at start-up the settings are loaded and applied first, then the
\* capture is opened, then the aspect ratio is computed, then the first tick
\* runs: the capture is not open while the settings are not yet loaded.
C16_LoadBeforeCapture ==
    vidOpen => pc \notin {"start", "opened"}

\* C16 as the code has it: the capture is opened and the aspect ratio
\* computed first, then the settings are loaded and the geometry applied,
\* then the size is cached and -topmost applied, and only then the first
\* tick runs.
C16_StartupOrder ==
    /\ pc = "start" => ~vidOpen /\ aspect_ratio = NoCapture
    /\ pc = "opened"
       => /\ vidOpen /\ aspect_ratio # NoCapture
          /\ win = UnsetGeometry /\ ~always_on_top /\ ~flip_horizontally
    /\ pc = "loaded"
       => /\ vidOpen /\ aspect_ratio # NoCapture
          /\ win # UnsetGeometry
          /\ width = 0 /\ ~topmost /\ canvasSize = <<0, 0>>
    /\ pc = "bound"
       => /\ width = win.w /\ topmost = always_on_top
          /\ pending = 0 /\ canvas = Blank
          /\ last # "update" /\ last # "update_noframe"
    /\ (pending > 0 \/ canvas # Blank)
       => /\ aspect_ratio # NoCapture
          /\ win # UnsetGeometry
          /\ width > 0
          /\ pc \in {"ticked", "running", "terminated"}

\* the capture open with its aspect ratio cached while the settings file,
\* which holds a geometry, has not been applied yet
C16_Witness ==
    /\ pc = "opened"
    /\ vidOpen
    /\ aspect_ratio = <<640, 480>>
    /\ file = FullRecord(Geom(1024, 768, 50, 50), TRUE, TRUE)
    /\ win = UnsetGeometry
    /\ ~always_on_top

\* C17: at most one tick is pending in every state: the loop is started
\* once, a tick sets at most one timer and no handler starts another loop.
C17_OneTickPending ==
    /\ pending <= 1
    /\ pc \in {"start", "opened", "loaded", "bound"} => pending = 0

\* one timer pending after ticks, a toggle, a resize and a failed close
C17_Witness ==
    /\ pc = "running"
    /\ pending = 1
    /\ last = "resize_event"
    /\ canvas # Blank
    /\ canvasSize = <<400, 300>>
    /\ always_on_top
    /\ closeLog # <<>>

\* C18: from the end of start-up until the window is destroyed the window's
\* -topmost attribute equals the always_on_top flag.
C18_TopmostMatchesFlag ==
    pc \in {"bound", "ticked", "running"} => topmost = always_on_top

\* a toggle whose save failed: flag and attribute are both set all the same
C18_Witness ==
    /\ pc = "running"
    /\ last = "toggle_always_on_top"
    /\ err = "PermissionError"
    /\ always_on_top
    /\ topmost
    /\ ~PersistedAOT(file)

C20_FlagsFrame ==
    [][(pc \in {"bound", "ticked", "running"})
       => /\ always_on_top' # always_on_top => toggle_always_on_top
          /\ flip_horizontally' # flip_horizontally => toggle_flip
          /\ (update \/ show_context_menu
                \/ \E g \in UserGeometries \cup {win}, c \in BOOLEAN :
                      resize_event(g, c))
             => UNCHANGED <<always_on_top, flip_horizontally>>
          /\ update => UNCHANGED <<file, saved>>]_vars

\* a tick that drew a mirrored frame after toggle_flip and a resize, the
\* flags being what the toggle left
C20_Witness ==
    /\ last = "update"
    /\ pc = "running"
    /\ flip_horizontally
    /\ ~always_on_top
    /\ canvas.mirrored
    /\ saved.by = "save"
    /\ saved.flip
    /\ ~saved.aot
    /\ win = Geom(400, 300, 0 - 5, 50)

====
